---- MODULE Spec2Model ----
(***************************************************************************)
(* A model of the STOMP broker: the subscription registry and its topic    *)
(* matcher, the per-command interceptor chain, the frame handlers and the  *)
(* heartbeat negotiation.                                                  *)
(*                                                                         *)
(* Conventions.  A JavaScript string that the code takes apart (a topic or *)
(* a body) is a sequence of one-character strings; opaque strings (ids,    *)
(* commands, header names) are TLA+ strings.  The JavaScript value         *)
(* undefined is the string "undefined" where the slot otherwise holds a    *)
(* string, and 0 where it otherwise holds a timer handle.  A header map is *)
(* a function whose domain is the set of keys present.  The array          *)
(* `subscribes` is a sequence of slots; a slot is the set holding its      *)
(* element, and the empty set once `delete` has left a hole there.         *)
(*                                                                         *)
(* Several specifications share the variables:                             *)
(*   Spec      the registry and the frame handlers SUBSCRIBE, UNSUBSCRIBE,  *)
(*             SEND, DISCONNECT, the close event and the in-process API,    *)
(*             with no interceptor registered;                             *)
(*   MwSpec    Spec with addMiddleware, setMiddleware and removeMiddleware; *)
(*   HbSpec    CONNECT, heartbeat negotiation and timers, and teardown;    *)
(*   HsSpec    HbSpec with interceptors on the connect chain;              *)
(*   ChainSpec chains of several interceptors on connect, subscribe, send; *)
(*   TickSpec  HbSpec's sockets with a clock: timers tick, time passes and *)
(*             payloads arrive; TickFairSpec adds fairness on the ticks,   *)
(*             the passing of time and the close event of a forced close;  *)
(*   MatchSpec the topic matcher as a pure function of its two inputs;     *)
(*   CodecSpec the frame serializer and parser as pure functions;          *)
(*   JsonSpec  SEND frames with a content-type, SUBSCRIBE frames without a *)
(*             destination: what parseRequest throws;                      *)
(*   OrderSpec frames in flight on each socket, handled in arrival order;  *)
(*   FanSpec   the fan-out with a callback that changes the registry.      *)
(***************************************************************************)
EXTENDS Integers, Sequences, FiniteSets, TLC

\* ---------------------------------------------------------------- bounds
MaxSubs == 2        \* length of the array `subscribes`, holes included
MaxHandlers == 1    \* interceptors registered over all commands
MaxTimers == 2      \* setInterval calls in one run
MaxTokens == 3      \* tokens of a pattern or destination given to the matcher

\* ------------------------------------------------------------ the domains
Conns == {"c1", "c2"}                   \* sockets; a socket's sessionId is its name
Ids == {"s1", "s2"}                     \* subscription ids a caller supplies
Receipts == {"undefined", "r1"}         \* the receipt header: absent or given
SubTopics == { <<"/", "a", ".", "*">>, <<"/", "b">> }
Dests == { <<"/", "a", ".", "b">>, <<"/", "b">> }
Bodies == { <<"h", "i">> }
HbValues == {0, 5000, 10000}            \* heart-beat values, milliseconds
Randoms == {17, 42}                     \* values Math.random() contributes to an id
Commands == {"connect", "disconnect", "send", "subscribe", "unsubscribe"}

Undefined == "undefined"
CONNECTING == 0     \* readyState before the transport reports the connection
OPEN == 1
CLOSING == 2        \* readyState after socket.close(), until the close event
CLOSED == 3
SelfSession == "self_1234"              \* selfSocket.sessionId
Sessions == Conns \cup {SelfSession}

\* --------------------------------------------------- JavaScript helpers
Get(h, k) == IF k \in DOMAIN h THEN h[k] ELSE Undefined
\* A variant that takes every value for true.
TruthyAlways(v) == TRUE

Truthy(v) == v \notin {"false", "undefined", ""}

RECURSIVE IndexOfFrom(_, _, _)
IndexOfFrom(s, ch, i) ==
    IF i > Len(s) THEN -1
    ELSE IF s[i] = ch THEN i - 1
    ELSE IndexOfFrom(s, ch, i + 1)

\* String.prototype.indexOf: 0-based, -1 when absent
IndexOf(s, ch) == IndexOfFrom(s, ch, 1)

\* String.prototype.substr(start), start >= 0
Substr(s, start) == SubSeq(s, start + 1, Len(s))

\* String.prototype.split(sep) for a one-character separator
RECURSIVE Split(_, _)
Split(s, sep) ==
    LET i == IndexOf(s, sep)
    IN  IF i = -1 THEN << s >>
        ELSE << SubSeq(s, 1, i) >> \o Split(Substr(s, i + 1), sep)

\* Array.prototype.join(sep) of strings
RECURSIVE Join(_, _)
Join(parts, sep) ==
    IF Len(parts) = 0 THEN << >>
    ELSE IF Len(parts) = 1 THEN parts[1]
    ELSE parts[1] \o << sep >> \o Join(Tail(parts), sep)

Max(a, b) == IF a > b THEN a ELSE b

\* ------------------------------------------------------------ stomp-utils
tokenizeDestination(dest) == Split(Substr(dest, IndexOf(dest, "/") + 1), ".")

\* genId(type): the type (default 'id') followed by a random number
genId(type, n) == << type, n >>

\* -------------------------------------------------------------- variables
VARIABLES
    conf,            \* the configuration: heartbeat pair and error margin
    subscribes,      \* StompServer.subscribes
    middleware,      \* StompServer.middleware: command -> sequence of interceptors
    readyState,      \* per socket
    heartbeatClock,  \* per socket: the timer handle, 0 when undefined
    heartbeatTime,   \* per socket
    clientHeartbeat, \* per socket
    timers,          \* the live interval timers
    nextTimer,       \* the next timer handle
    now,             \* Date.now()
    sent,            \* per socket: the frames the latest step wrote to it
    emitted,         \* the calls the latest step made on the event emitter
    last,            \* the latest step: its input and what its chain returned
    probe            \* the specification's own record: an input and its result
                     \* (MatchSpec, CodecSpec), the frames in flight (OrderSpec),
                     \* what the latest fan-out did (FanSpec)

vars == << conf, subscribes, middleware, readyState, heartbeatClock,
           heartbeatTime, clientHeartbeat, timers, nextTimer, now, sent, emitted,
           last, probe >>

hbVars == << heartbeatClock, heartbeatTime, clientHeartbeat, timers, nextTimer, now >>

\* ----------------------------------------------------------- the matcher
Star == << "*" >>
StarStar == << "*", "*" >>

RECURSIVE MatchLoop(_, _, _)
MatchLoop(subTokens, tokens, t) ==
    IF t > Len(tokens) THEN TRUE
    ELSE IF t > Len(subTokens)
            \/ (subTokens[t] # tokens[t] /\ subTokens[t] # Star /\ subTokens[t] # StarStar)
         THEN FALSE
    ELSE IF subTokens[t] = StarStar THEN TRUE
    ELSE MatchLoop(subTokens, tokens, t + 1)

\* A variant of the loop that takes `**` for one segment, like `*`.
RECURSIVE MatchLoopSingle(_, _, _)
MatchLoopSingle(subTokens, tokens, t) ==
    IF t > Len(tokens) THEN TRUE
    ELSE IF t > Len(subTokens)
            \/ (subTokens[t] # tokens[t] /\ subTokens[t] # Star /\ subTokens[t] # StarStar)
         THEN FALSE
    ELSE MatchLoopSingle(subTokens, tokens, t + 1)

checkSubMatchDestSingle(sub, args) ==
    MatchLoopSingle(sub.tokens, tokenizeDestination(args.dest), 1)

checkSubMatchDest(sub, args) ==
    MatchLoop(sub.tokens, tokenizeDestination(args.dest), 1)

\* ------------------------------------------------------------- the frames
Frame(command, headers, body) ==
    [command |-> command, headers |-> headers, body |-> body]

NoBody == << >>

\* ServerFrame.RECEIPT
ReceiptFrame(receipt) == Frame("RECEIPT", "receipt-id" :> receipt, NoBody)

\* ServerFrame.ERROR; the content-length header (the description's length) is
\* left out: descriptions are opaque strings here
ErrorFrame(message, description) ==
    Frame("ERROR", ("message" :> message) @@ ("content-type" :> "text/plain"),
          description)

\* ServerFrame.CONNECTED
ConnectedFrame(socket, heartbeat) ==
    Frame("CONNECTED",
          ("session" :> socket) @@ ("heart-beat" :> heartbeat) @@ ("version" :> "1.1"),
          NoBody)

NoneSent == [c \in Conns |-> << >>]
SendTo(out, socket, frame) == [out EXCEPT ![socket] = Append(@, frame)]

\* --------------------------------------------------- the interceptor chain
\* An interceptor either calls its continuation or does not, and returns the
\* continuation's value ("next") or a value of its own.
Pass == [proceed |-> TRUE, ret |-> "next"]          \* (s, a, next) => next()
Veto == [proceed |-> FALSE, ret |-> "false"]        \* (s, a, next) => false
Forget == [proceed |-> TRUE, ret |-> "undefined"]   \* (s, a, next) => { next(); }
Interceptors == {Pass, Veto, Forget}

\* A variant in which an interceptor that does not call its continuation does
\* not stop the chain.
RECURSIVE callNextThrough(_, _, _)
callNextThrough(handlers, i, finalResult) ==
    IF i > Len(handlers)
    THEN [reached |-> TRUE, result |-> finalResult, calls |-> << >>]
    ELSE LET h == handlers[i]
             r == callNextThrough(handlers, i + 1, finalResult)
         IN  [reached |-> r.reached,
              result |-> IF h.ret = "next" THEN r.result ELSE h.ret,
              calls |-> << i >> \o r.calls]

RECURSIVE callNext(_, _, _)
callNext(handlers, i, finalResult) ==
    IF i > Len(handlers)
    THEN [reached |-> TRUE, result |-> finalResult, calls |-> << >>]
    ELSE LET h == handlers[i]
         IN  IF h.proceed
             THEN LET r == callNext(handlers, i + 1, finalResult)
                  IN  [reached |-> r.reached,
                       result |-> IF h.ret = "next" THEN r.result ELSE h.ret,
                       calls |-> << i >> \o r.calls]
             ELSE [reached |-> FALSE, result |-> h.ret, calls |-> << i >>]

\* withMiddleware(command, finalHandler)(socket, args): whether the terminal
\* handler runs, the value the call returns, given the terminal handler's
\* return value, and the indices of the interceptors called, in call order
withMiddleware(command, finalResult) == callNext(middleware[command], 1, finalResult)

\* ------------------------------------------------------------ the registry
Sub(id, sessionId, topic, socket) ==
    [id |-> id, sessionId |-> sessionId, topic |-> topic,
     tokens |-> tokenizeDestination(topic), socket |-> socket]

\* the indices a for-in loop over `subscribes` visits: the slots that are not holes
Indices == {i \in 1..Len(subscribes) : subscribes[i] # {}}
At(i) == CHOOSE s \in subscribes[i] : TRUE
SubsOf(sessionId) == {i \in Indices : At(i).sessionId = sessionId}

SetHeader(h, k, v) == (k :> v) @@ h

\* The steps record what they did in `last`, and when.
Step(op, sess, r, id, dest, receipt) ==
    [op |-> op, sess |-> sess, reached |-> r.reached, result |-> r.result,
     calls |-> r.calls, id |-> id, dest |-> dest, receipt |-> receipt, hb |-> << 0, 0 >>, timer |-> 0,
     at |-> now]

Direct == [reached |-> TRUE, result |-> "true", calls |-> << >>]

\* parseRequest, its first lines: a payload on a socket with a heartbeat timer
\* moves the socket's heartbeatTime to now
Beat(socket) ==
    heartbeatTime' = IF heartbeatClock[socket] # 0
                     THEN [heartbeatTime EXCEPT ![socket] = now]
                     ELSE heartbeatTime

\* ------------------------------------------------------ _sendToSubscriptions
RECURSIVE sendLoop(_, _, _, _)
sendLoop(sessionId, args, i, acc) ==
    IF i > Len(subscribes) THEN acc
    ELSE IF subscribes[i] = {} THEN sendLoop(sessionId, args, i + 1, acc)
    ELSE LET sub == At(i)
         IN  IF sessionId = sub.sessionId
             THEN sendLoop(sessionId, args, i + 1, acc)
             ELSE IF checkSubMatchDest(sub, args)
             THEN LET frame == Frame("MESSAGE",
                                     SetHeader(args.frame.headers, "subscription", sub.id),
                                     args.frame.body)
                  IN  IF sub.socket # Undefined
                      THEN sendLoop(sessionId, args, i + 1,
                                    [acc EXCEPT !.sent = SendTo(@, sub.socket, frame)])
                      ELSE sendLoop(sessionId, args, i + 1,
                                    [acc EXCEPT !.emitted =
                                        Append(@, [call |-> "emit", event |-> sub.id, body |-> frame.body,
                                                   headers |-> frame.headers])])
             ELSE sendLoop(sessionId, args, i + 1, acc)

\* Variants of the loop: `skipSelf` off delivers to the sender's own
\* subscriptions too, `firstOnly` leaves the loop after the first delivery.
RECURSIVE sendLoopVariant(_, _, _, _, _, _)
sendLoopVariant(sessionId, args, i, acc, skipSelf, firstOnly) ==
    IF i > Len(subscribes) THEN acc
    ELSE IF subscribes[i] = {}
    THEN sendLoopVariant(sessionId, args, i + 1, acc, skipSelf, firstOnly)
    ELSE LET sub == At(i)
         IN  IF (skipSelf /\ sessionId = sub.sessionId) \/ ~checkSubMatchDest(sub, args)
             THEN sendLoopVariant(sessionId, args, i + 1, acc, skipSelf, firstOnly)
             ELSE LET frame == Frame("MESSAGE",
                                     SetHeader(args.frame.headers, "subscription", sub.id),
                                     args.frame.body)
                      acc2 == IF sub.socket # Undefined
                              THEN [acc EXCEPT !.sent = SendTo(@, sub.socket, frame)]
                              ELSE [acc EXCEPT !.emitted =
                                       Append(@, [call |-> "emit", event |-> sub.id,
                                                  body |-> frame.body,
                                                  headers |-> frame.headers])]
                  IN  IF firstOnly THEN acc2
                      ELSE sendLoopVariant(sessionId, args, i + 1, acc2, skipSelf, firstOnly)

sendToSubscriptionsToAll(sessionId, args, acc) ==
    sendLoopVariant(sessionId, args, 1, acc, FALSE, FALSE)

sendToSubscriptionsFirst(sessionId, args, acc) ==
    sendLoopVariant(sessionId, args, 1, acc, TRUE, TRUE)

sendToSubscriptions(sessionId, args, acc) == sendLoop(sessionId, args, 1, acc)

\* ------------------------------------------------------------------- JSON
\* JSON texts without white space: a number, a string without escapes, a
\* literal, [], {} and an object of one member.  A JavaScript value that is not
\* a string is the tag NotString followed by its JSON text.
NotString == "#value"
Quote == "\""
Digits == {"0", "1", "2", "3", "4", "5", "6", "7", "8", "9"}

IsNumber(t) ==
    /\ Len(t) >= 1
    /\ \A i \in 1..Len(t) : t[i] \in Digits
    /\ Len(t) > 1 => t[1] # "0"

IsStringLit(t) ==
    /\ Len(t) >= 2
    /\ t[1] = Quote /\ t[Len(t)] = Quote
    /\ \A i \in 2..(Len(t) - 1) : t[i] \notin {Quote, "\\"}

RECURSIVE IsJson(_)
IsJson(t) ==
    \/ IsNumber(t)
    \/ IsStringLit(t)
    \/ t \in { << "t", "r", "u", "e" >>, << "f", "a", "l", "s", "e" >>,
                << "n", "u", "l", "l" >>, << "[", "]" >>, << "{", "}" >> }
    \/ /\ Len(t) >= 6
       /\ t[1] = "{" /\ t[Len(t)] = "}"
       /\ \E k \in 4..(Len(t) - 2) :
             /\ t[k] = ":"
             /\ IsStringLit(SubSeq(t, 2, k - 1))
             /\ IsJson(SubSeq(t, k + 1, Len(t) - 1))

\* JSON.parse: the value, or a SyntaxError thrown
JSONparse(t) ==
    IF ~IsJson(t) THEN [threw |-> TRUE, value |-> << >>]
    ELSE IF IsStringLit(t) THEN [threw |-> FALSE, value |-> SubSeq(t, 2, Len(t) - 1)]
    ELSE [threw |-> FALSE, value |-> << NotString >> \o t]

\* JSON.stringify of a string or of a value JSON.parse gave
JSONstringify(v) ==
    IF v # << >> /\ v[1] = NotString THEN Tail(v)
    ELSE << Quote >> \o v \o << Quote >>

IsJsonFrame(frame) == Get(frame.headers, "content-type") = "application/json"

\* frameSerializer / frameParser: they change the body of a frame whose
\* content-type is application/json, and no other
frameSerializer(frame) ==
    IF IsJsonFrame(frame) THEN [frame EXCEPT !.body = JSONstringify(@)] ELSE frame

frameParser(frame) ==
    IF IsJsonFrame(frame) THEN [frame EXCEPT !.body = JSONparse(@).value] ELSE frame

\* whether frameParser throws instead of returning
frameParserThrows(frame) == IsJsonFrame(frame) /\ JSONparse(frame.body).threw

\* onSend's terminal handler.  The default headers it prepares (message-id,
\* content-type, the frame's headers merged over them) are a local the handler
\* never reads again; the frame it fans out carries the sender's headers and
\* content-length.
onSendFinal(sessionId, args, n) ==
    LET frame0 == frameSerializer(args.frame)
        headers == frame0.headers @@ ("message-id" :> genId("msg", n))
                                  @@ ("content-type" :> "text/plain")
        frame == [frame0 EXCEPT !.headers = SetHeader(@, "content-length", Len(frame0.body))]
        event == [call |-> "emit", event |-> "send", dest |-> args.dest, headers |-> frame.headers]
    IN  sendToSubscriptions(sessionId, [dest |-> args.dest, frame |-> frame],
                            [sent |-> NoneSent, emitted |-> << event >>])

\* ------------------------------------------------------------ heartbeatOff
heartbeatOff(socket) ==
    /\ timers' = {t \in timers : t.id # heartbeatClock[socket]}
    /\ heartbeatClock' = [heartbeatClock EXCEPT ![socket] = 0]

\* afterConnectionClose: the registry after the loop that deletes the session's
\* subscriptions
afterConnectionCloseSubs(sessionId) ==
    [i \in 1..Len(subscribes) |->
        IF subscribes[i] # {} /\ At(i).sessionId = sessionId THEN {} ELSE subscribes[i]]

\* ------------------------------------------------------------------- Init
Init ==
    /\ conf = [heartbeat |-> << 0, 0 >>, heartbeatErrorMargin |-> 1000]
    /\ subscribes = << >>
    /\ middleware = [c \in Commands |-> << >>]
    /\ readyState = [c \in Conns |-> CONNECTING]
    /\ heartbeatClock = [c \in Conns |-> 0]
    /\ heartbeatTime = [c \in Conns |-> 0]
    /\ clientHeartbeat = [c \in Conns |-> << 0, 0 >>]
    /\ timers = {}
    /\ nextTimer = 1
    /\ now = 0
    /\ sent = NoneSent
    /\ emitted = << >>
    /\ last = Step("init", Undefined, Direct, Undefined, << >>, Undefined)
    /\ probe = [phase |-> "off"]

\* ------------------------------------------------- the transport's events
\* socket.on('connection')
Connection(c) ==
    /\ readyState[c] = CONNECTING
    /\ readyState' = [readyState EXCEPT ![c] = OPEN]
    /\ emitted' = << [call |-> "emit", event |-> "connecting", sessionId |-> c] >>
    /\ sent' = NoneSent
    /\ last' = Step("connection", c, Direct, Undefined, << >>, Undefined)
    /\ UNCHANGED << conf, subscribes, middleware, hbVars, probe >>

\* onDisconnect: the disconnect chain around afterConnectionClose
Teardown(c, r) ==
    IF r.reached
    THEN /\ subscribes' = afterConnectionCloseSubs(c)
         /\ heartbeatOff(c)
         /\ emitted' = << [call |-> "emit", event |-> "disconnected", sessionId |-> c] >>
    ELSE /\ emitted' = << >>
         /\ UNCHANGED << subscribes, heartbeatClock, timers >>

\* ws.on('close'): the transport reports the socket closed, of its own or
\* after socket.close()
Close(c) ==
    /\ readyState[c] \in {OPEN, CLOSING}
    /\ readyState' = [readyState EXCEPT ![c] = CLOSED]
    /\ LET r == withMiddleware("disconnect", "true")
       IN  /\ Teardown(c, r)
           /\ last' = Step("close", c, r, Undefined, << >>, Undefined)
    /\ sent' = NoneSent
    /\ UNCHANGED << conf, middleware, heartbeatTime, clientHeartbeat,
                    nextTimer, now, probe >>

\* ------------------------------------------------------ the frame handlers
\* parseRequest with a DISCONNECT frame: FrameHandler.DISCONNECT
RecvDisconnect(c, receipt) ==
    /\ readyState[c] = OPEN
    /\ Beat(c)
    /\ LET r == withMiddleware("disconnect", "true")
       IN  /\ Teardown(c, r)
           /\ sent' = SendTo(NoneSent, c,
                             IF Truthy(r.result) THEN ReceiptFrame(receipt)
                             ELSE ErrorFrame("DISCONNECT ERROR", receipt))
           /\ last' = Step("DISCONNECT", c, r, Undefined, << >>, receipt)
    /\ UNCHANGED << conf, middleware, readyState, clientHeartbeat,
                    nextTimer, now, probe >>

\* parseRequest with a SUBSCRIBE frame: FrameHandler.SUBSCRIBE and onSubscribe
DispatchSubscribe(c, id, topic) ==
    /\ readyState[c] = OPEN
    /\ Beat(c)
    /\ LET r == withMiddleware("subscribe", "true")
           sub == Sub(id, c, topic, c)
       IN  /\ r.reached => Len(subscribes) < MaxSubs
           /\ IF r.reached
              THEN /\ subscribes' = Append(subscribes, {sub})
                   /\ emitted' = << [call |-> "emit", event |-> "subscribe", sub |-> sub] >>
              ELSE /\ emitted' = << >>
                   /\ UNCHANGED subscribes
           /\ sent' = IF Truthy(r.result) THEN NoneSent
                      ELSE SendTo(NoneSent, c, ErrorFrame("SUBSCRIBE ERROR", topic))
           /\ last' = Step("SUBSCRIBE", c, r, id, topic, Undefined)
    /\ UNCHANGED << conf, middleware, readyState, heartbeatClock,
                    clientHeartbeat, timers, nextTimer, now >>

\* a SUBSCRIBE frame arrives and is handled at once
RecvSubscribe(c, id, topic) ==
    DispatchSubscribe(c, id, topic) /\ UNCHANGED probe

\* onUnsubscribe's terminal handler: the first slot, in index order, whose
\* subscription has this id and this session
unsubscribeHitAnySession(sessionId, subId) ==
    {i \in Indices : At(i).id = subId}

unsubscribeHit(sessionId, subId) ==
    {i \in Indices : At(i).id = subId /\ At(i).sessionId = sessionId}

First(S) == CHOOSE i \in S : \A j \in S : i <= j

\* `before` holds the calls made on the event emitter before the chain ran
Unsubscribe(sessionId, subId, r, before) ==
    LET hit == unsubscribeHit(sessionId, subId)
    IN  IF r.reached /\ hit # {}
        THEN /\ subscribes' = [subscribes EXCEPT ![First(hit)] = {}]
             /\ emitted' = before \o << [call |-> "emit", event |-> "unsubscribe",
                                         sub |-> At(First(hit))] >>
        ELSE /\ emitted' = before
             /\ UNCHANGED subscribes

unsubscribeResult(sessionId, subId) ==
    IF unsubscribeHit(sessionId, subId) # {} THEN "true" ELSE "false"

\* parseRequest with an UNSUBSCRIBE frame: FrameHandler.UNSUBSCRIBE
DispatchUnsubscribe(c, id) ==
    /\ readyState[c] = OPEN
    /\ Beat(c)
    /\ LET r == withMiddleware("unsubscribe", unsubscribeResult(c, id))
       IN  /\ Unsubscribe(c, id, r, << >>)
           /\ sent' = IF Truthy(r.result) THEN NoneSent
                      ELSE SendTo(NoneSent, c, ErrorFrame("UNSUBSCRIBE ERROR", id))
           /\ last' = Step("UNSUBSCRIBE", c, r, id, << >>, Undefined)
    /\ UNCHANGED << conf, middleware, readyState, heartbeatClock,
                    clientHeartbeat, timers, nextTimer, now >>

\* an UNSUBSCRIBE frame arrives and is handled at once
RecvUnsubscribe(c, id) ==
    DispatchUnsubscribe(c, id) /\ UNCHANGED probe

\* the headers of a SEND frame as the client wrote them
SendHeaders(dest, receipt) ==
    LET h1 == "destination" :> dest
    IN  IF receipt = Undefined THEN h1 ELSE h1 @@ ("receipt" :> receipt)

\* parseRequest with a SEND frame: FrameHandler.SEND and onSend.  withMiddleware
\* hands the terminal handler the socket and the args only, so the handler's
\* callback parameter is undefined and the function FrameHandler.SEND passes
\* (RECEIPT or ERROR) is never called.
DispatchSend(c, dest, receipt, body) ==
    /\ readyState[c] = OPEN
    /\ Beat(c)
    /\ LET frame == frameParser(Frame("SEND", SendHeaders(dest, receipt), body))
           args == [dest |-> Get(frame.headers, "destination"), frame |-> frame]
           r == withMiddleware("send", "true")
       IN  /\ IF r.reached
              THEN \E n \in Randoms :
                     LET o == onSendFinal(c, args, n)
                     IN  sent' = o.sent /\ emitted' = o.emitted
              ELSE sent' = NoneSent /\ emitted' = << >>
           /\ last' = Step("SEND", c, r, Undefined, dest, receipt)
    /\ UNCHANGED << conf, subscribes, middleware, readyState, heartbeatClock,
                    clientHeartbeat, timers, nextTimer, now >>

\* a SEND frame arrives and is handled at once
RecvSend(c, dest, receipt, body) ==
    DispatchSend(c, dest, receipt, body) /\ UNCHANGED probe

\* ------------------------------------------------------ the in-process API
\* subscribe(topic, callback, headers): the id is headers.id, or 'self_' and a
\* random number, which is some string either way; a callback is registered on
\* the event emitter under the id
ApiSubscribe(topic, callback, id) ==
    /\ Len(subscribes) < MaxSubs
    /\ LET sub == Sub(id, SelfSession, topic, Undefined)
       IN  /\ subscribes' = Append(subscribes, {sub})
           /\ emitted' = << [call |-> "emit", event |-> "subscribe", sub |-> sub] >>
                          \o (IF callback THEN << [call |-> "on", event |-> id] >> ELSE << >>)
    /\ sent' = NoneSent
    /\ last' = Step("subscribe", SelfSession, Direct, id, topic, Undefined)
    /\ UNCHANGED << conf, middleware, readyState, hbVars, probe >>

\* unsubscribe(id)
ApiUnsubscribe(id) ==
    /\ LET r == withMiddleware("unsubscribe", unsubscribeResult(SelfSession, id))
       IN  /\ Unsubscribe(SelfSession, id, r,
                          << [call |-> "removeAllListeners", event |-> id] >>)
           /\ last' = Step("unsubscribe", SelfSession, r, id, << >>, Undefined)
    /\ sent' = NoneSent
    /\ UNCHANGED << conf, middleware, readyState, hbVars, probe >>

\* send(topic, headers, body): the frame has the caller's headers and no command
ApiSend(topic, body) ==
    /\ LET frame == frameParser(Frame(Undefined, << >>, body))
           args == [dest |-> topic, frame |-> frame]
           r == withMiddleware("send", "true")
       IN  /\ IF r.reached
              THEN \E n \in Randoms :
                     LET o == onSendFinal(SelfSession, args, n)
                     IN  sent' = o.sent /\ emitted' = o.emitted
              ELSE sent' = NoneSent /\ emitted' = << >>
           /\ last' = Step("send", SelfSession, r, Undefined, topic, Undefined)
    /\ UNCHANGED << conf, subscribes, middleware, readyState, hbVars, probe >>

\* ------------------------------------------------- the middleware registry
Registered == Len(middleware["connect"]) + Len(middleware["disconnect"])
              + Len(middleware["send"]) + Len(middleware["subscribe"])
              + Len(middleware["unsubscribe"])

MwStep(op) == Step(op, Undefined, Direct, Undefined, << >>, Undefined)

\* addMiddleware while fewer than `cap` interceptors are registered
addMiddlewareUpTo(command, handler, cap) ==
    /\ Registered < cap
    /\ middleware' = [middleware EXCEPT ![command] = Append(@, handler)]
    /\ sent' = NoneSent /\ emitted' = << >> /\ last' = MwStep("addMiddleware")
    /\ UNCHANGED << conf, subscribes, readyState, hbVars, probe >>

addMiddleware(command, handler) == addMiddlewareUpTo(command, handler, MaxHandlers)

setMiddleware(command, handler) ==
    /\ Registered - Len(middleware[command]) < MaxHandlers
    /\ middleware' = [middleware EXCEPT ![command] = << handler >>]
    /\ sent' = NoneSent /\ emitted' = << >> /\ last' = MwStep("setMiddleware")
    /\ UNCHANGED << conf, subscribes, readyState, hbVars, probe >>

\* Array.prototype.indexOf, 1-based here, 0 when absent
RECURSIVE ArrayIndexOf(_, _, _)
ArrayIndexOf(a, x, i) ==
    IF i > Len(a) THEN 0 ELSE IF a[i] = x THEN i ELSE ArrayIndexOf(a, x, i + 1)

Splice(a, idx) == SubSeq(a, 1, idx - 1) \o SubSeq(a, idx + 1, Len(a))

\* removeMiddleware, on a command whose list exists
removeMiddleware(command, handler) ==
    /\ middleware[command] # << >>
    /\ LET idx == ArrayIndexOf(middleware[command], handler, 1)
       IN  middleware' = IF idx >= 1
                         THEN [middleware EXCEPT ![command] = Splice(@, idx)]
                         ELSE middleware
    /\ sent' = NoneSent /\ emitted' = << >> /\ last' = MwStep("removeMiddleware")
    /\ UNCHANGED << conf, subscribes, readyState, hbVars, probe >>

\* ------------------------------------------------------------------- Spec
MwCommands == {"send", "disconnect", "unsubscribe"}

Next ==
    \/ \E c \in Conns : Connection(c)
    \/ \E c \in Conns : Close(c)
    \/ \E c \in Conns, receipt \in Receipts : RecvDisconnect(c, receipt)
    \/ \E c \in Conns, id \in Ids, topic \in SubTopics : RecvSubscribe(c, id, topic)
    \/ \E c \in Conns, id \in Ids : RecvUnsubscribe(c, id)
    \/ \E c \in Conns, dest \in Dests, receipt \in Receipts, body \in Bodies :
          RecvSend(c, dest, receipt, body)
    \/ \E topic \in SubTopics, callback \in BOOLEAN, id \in Ids :
          ApiSubscribe(topic, callback, id)
    \/ \E id \in Ids : ApiUnsubscribe(id)
    \/ \E topic \in Dests, body \in Bodies : ApiSend(topic, body)

Spec == Init /\ [][Next]_vars

\* MwSpec: Spec with the middleware registry's operations
MwNext ==
    \/ Next
    \/ \E command \in MwCommands, handler \in Interceptors : addMiddleware(command, handler)
    \/ \E command \in MwCommands, handler \in Interceptors : setMiddleware(command, handler)
    \/ \E command \in MwCommands, handler \in Interceptors : removeMiddleware(command, handler)

MwSpec == Init /\ [][MwNext]_vars

\* ----------------------------------------------------------- the heartbeat
\* heartbeatOn(socket, interval, serverSide): setInterval makes a new timer,
\* first due an interval from now, and
\* socket.heartbeatClock is overwritten with its handle; with the client
\* driving, heartbeatTime becomes now + interval.  `beaten` is heartbeatTime as
\* parseRequest left it.
heartbeatOn(socket, interval, serverSide, beaten) ==
    /\ timers' = timers \cup {[id |-> nextTimer, socket |-> socket,
                               interval |-> interval, serverSide |-> serverSide,
                               due |-> now + interval]}
    /\ heartbeatClock' = [heartbeatClock EXCEPT ![socket] = nextTimer]
    /\ nextTimer' = nextTimer + 1
    /\ heartbeatTime' = IF serverSide THEN beaten
                        ELSE [beaten EXCEPT ![socket] = now + interval]

\* A variant that tries the server-to-client direction first.
negotiateServerFirst(clientHb) ==
    IF clientHb[2] > 0 /\ conf.heartbeat[1] > 0
    THEN [on |-> TRUE, serverSide |-> TRUE,
          interval |-> Max(clientHb[2], conf.heartbeat[1]),
          serverHeartbeat |-> << Max(clientHb[2], conf.heartbeat[1]), 0 >>]
    ELSE IF clientHb[1] > 0 /\ conf.heartbeat[2] > 0
    THEN [on |-> TRUE, serverSide |-> FALSE,
          interval |-> Max(clientHb[1], conf.heartbeat[2]),
          serverHeartbeat |-> << 0, Max(clientHb[1], conf.heartbeat[2]) >>]
    ELSE [on |-> FALSE, serverSide |-> FALSE, interval |-> 0,
          serverHeartbeat |-> << 0, 0 >>]

\* FrameHandler.CONNECT, the negotiation: which timer to start, if any, and the
\* heart-beat pair the CONNECTED frame announces
negotiate(clientHb) ==
    IF clientHb[1] > 0 /\ conf.heartbeat[2] > 0
    THEN [on |-> TRUE, serverSide |-> FALSE,
          interval |-> Max(clientHb[1], conf.heartbeat[2]),
          serverHeartbeat |-> << 0, Max(clientHb[1], conf.heartbeat[2]) >>]
    ELSE IF clientHb[2] > 0 /\ conf.heartbeat[1] > 0
    THEN [on |-> TRUE, serverSide |-> TRUE,
          interval |-> Max(clientHb[2], conf.heartbeat[1]),
          serverHeartbeat |-> << Max(clientHb[2], conf.heartbeat[1]), 0 >>]
    ELSE [on |-> FALSE, serverSide |-> FALSE, interval |-> 0,
          serverHeartbeat |-> << 0, 0 >>]

\* the heart-beat header of a CONNECT frame: absent, or 'cx,cy'
HbHeaders == {Undefined} \cup (HbValues \X HbValues)

\* parseRequest with a CONNECT frame: FrameHandler.CONNECT and onClientConnected
RecvConnect(c, rawHeartbeat) ==
    /\ readyState[c] = OPEN
    /\ LET clientHb == IF rawHeartbeat = Undefined THEN << 0, 0 >> ELSE rawHeartbeat
           n == negotiate(clientHb)
           beaten == IF heartbeatClock[c] # 0
                     THEN [heartbeatTime EXCEPT ![c] = now]
                     ELSE heartbeatTime
           r == withMiddleware("connect", "true")
       IN  /\ IF n.on
              THEN /\ nextTimer <= MaxTimers
                   /\ heartbeatOn(c, n.interval, n.serverSide, beaten)
              ELSE /\ heartbeatTime' = beaten
                   /\ UNCHANGED << timers, heartbeatClock, nextTimer >>
           /\ IF r.reached
              THEN /\ clientHeartbeat' = [clientHeartbeat EXCEPT ![c] = clientHb]
                   /\ emitted' = << [call |-> "emit", event |-> "connected", sessionId |-> c] >>
              ELSE /\ emitted' = << >>
                   /\ UNCHANGED clientHeartbeat
           /\ sent' = SendTo(NoneSent, c,
                             IF Truthy(r.result)
                             THEN ConnectedFrame(c, n.serverHeartbeat)
                             ELSE ErrorFrame("CONNECTION ERROR", "CONNECTION ERROR"))
           /\ last' = [Step("CONNECT", c, r, Undefined, << >>, Undefined)
                          EXCEPT !.hb = clientHb,
                                 !.timer = IF n.on THEN nextTimer ELSE 0]
    /\ UNCHANGED << conf, subscribes, middleware, readyState, now, probe >>

\* HbSpec: the server is constructed with some heartbeat configuration
HbInit ==
    /\ conf \in [heartbeat : HbValues \X HbValues, heartbeatErrorMargin : {1000}]
    /\ subscribes = << >>
    /\ middleware = [c \in Commands |-> << >>]
    /\ readyState = [c \in Conns |-> CONNECTING]
    /\ heartbeatClock = [c \in Conns |-> 0]
    /\ heartbeatTime = [c \in Conns |-> 0]
    /\ clientHeartbeat = [c \in Conns |-> << 0, 0 >>]
    /\ timers = {}
    /\ nextTimer = 1
    /\ now = 0
    /\ sent = NoneSent
    /\ emitted = << >>
    /\ last = Step("init", Undefined, Direct, Undefined, << >>, Undefined)
    /\ probe = [phase |-> "off"]

HbTopic == << "/", "b" >>

\* one socket: heartbeat state is per socket, and the sockets do not interact
HbConns == {"c1"}

HbNext ==
    \/ \E c \in HbConns : Connection(c)
    \/ \E c \in HbConns, rawHeartbeat \in HbHeaders : RecvConnect(c, rawHeartbeat)
    \/ \E c \in HbConns : RecvSubscribe(c, "s1", HbTopic)
    \/ \E c \in HbConns : RecvDisconnect(c, Undefined)
    \/ \E c \in HbConns : Close(c)

HbSpec == HbInit /\ [][HbNext]_vars

\* ---------------------------------------------------------------- MatchSpec
\* The matcher on every pair of a pattern and a destination of at most
\* MaxTokens tokens over MatchTokens.  The pattern is tokenized as onSubscribe
\* does, the destination as _checkSubMatchDest does.
MatchTokens == { << "a" >>, << "b" >>, << "c" >>, << "d" >>, Star, StarStar }
TokenSeqs == UNION {[1..n -> MatchTokens] : n \in 1..MaxTokens}
Topic(tokens) == << "/" >> \o Join(tokens, ".")

MatchInit ==
    /\ conf = [heartbeat |-> << 0, 0 >>, heartbeatErrorMargin |-> 1000]
    /\ subscribes = << >>
    /\ middleware = [c \in Commands |-> << >>]
    /\ readyState = [c \in Conns |-> CONNECTING]
    /\ heartbeatClock = [c \in Conns |-> 0]
    /\ heartbeatTime = [c \in Conns |-> 0]
    /\ clientHeartbeat = [c \in Conns |-> << 0, 0 >>]
    /\ timers = {}
    /\ nextTimer = 1
    /\ now = 0
    /\ sent = NoneSent
    /\ emitted = << >>
    /\ last = Step("init", Undefined, Direct, Undefined, << >>, Undefined)
    /\ probe \in [phase : {"in"}, sub : TokenSeqs, dest : TokenSeqs, match : {FALSE}]

ApplyMatch ==
    /\ probe.phase = "in"
    /\ probe' = [probe EXCEPT
                    !.phase = "out",
                    !.match = checkSubMatchDest(
                                  Sub("s1", "c1", Topic(probe.sub), "c1"),
                                  [dest |-> Topic(probe.dest)])]
    /\ UNCHANGED << conf, subscribes, middleware, readyState, hbVars, sent, emitted, last >>

MatchNext == ApplyMatch

MatchSpec == MatchInit /\ [][MatchNext]_vars

\* =================================================================== claims
\* The walk of the destination's tokens against a pattern's: a missing pattern
\* token gives no match, `**` succeeds at once, an equal token or `*` goes on
\* to the next index, and a destination used up is a match.
RECURSIVE Walk(_, _)
Walk(pattern, destination) ==
    IF destination = << >> THEN TRUE
    ELSE IF pattern = << >> THEN FALSE
    ELSE IF Head(pattern) = StarStar THEN TRUE
    ELSE IF Head(pattern) = Head(destination) \/ Head(pattern) = Star
         THEN Walk(Tail(pattern), Tail(destination))
    ELSE FALSE

\* the MESSAGE frames the latest step wrote to socket c for subscription id x
MessagesTo(c, x) ==
    {k \in 1..Len(sent[c]) :
        sent[c][k].command = "MESSAGE" /\ Get(sent[c][k].headers, "subscription") = x}

\* the events the latest step emitted under the subscription id x
CallbacksTo(x) ==
    {k \in 1..Len(emitted) : emitted[k].call = "emit" /\ emitted[k].event = x}

AnyMessage ==
    \/ \E c \in Conns : \E k \in 1..Len(sent[c]) : sent[c][k].command = "MESSAGE"
    \/ \E x \in Ids : CallbacksTo(x) # {}

\* the subscriptions of other sessions than the latest step's, with id x and
\* socket c (Undefined: in-process), whose pattern matches the step's destination
Matching(c, x) ==
    {i \in Indices :
        /\ At(i).socket = c
        /\ At(i).id = x
        /\ At(i).sessionId # last.sess
        /\ Walk(At(i).tokens, tokenizeDestination(last.dest))}

\* C1: a publication, by a SEND frame or by the in-process send, is delivered
\* to no subscription of the publishing session: no MESSAGE frame goes to the
\* sender's socket, and no event is emitted for an in-process subscription when
\* the in-process session publishes.
C1_SelfExclusion ==
    last.op \in {"SEND", "send"} =>
        /\ last.sess \in Conns =>
              \A k \in 1..Len(sent[last.sess]) : sent[last.sess][k].command # "MESSAGE"
        /\ \A i \in Indices :
              At(i).sessionId = last.sess =>
                  IF At(i).socket # Undefined
                  THEN MessagesTo(At(i).socket, At(i).id) = {}
                  ELSE CallbacksTo(At(i).id) = {}

\* a sender with a subscription of its own that matches, while another session
\* receives the publication
C1_Witness ==
    /\ last.op = "SEND"
    /\ \E i \in Indices :
          /\ At(i).sessionId = last.sess
          /\ Walk(At(i).tokens, tokenizeDestination(last.dest))
    /\ AnyMessage

C3_MessageId ==
    last.op = "SEND" =>
        /\ \A c \in Conns : \A k \in 1..Len(sent[c]) :
              sent[c][k].command = "MESSAGE" => "message-id" \in DOMAIN sent[c][k].headers
        /\ \A k \in 1..Len(emitted) :
              (emitted[k].call = "emit" /\ emitted[k].event \in Ids) =>
                  "message-id" \in DOMAIN emitted[k].headers

\* the RECEIPT frames the latest step wrote to its own socket with this receipt-id
ReceiptsFor(c, receipt) ==
    {k \in 1..Len(sent[c]) :
        sent[c][k].command = "RECEIPT" /\ sent[c][k].headers["receipt-id"] = receipt}

ErrorsTo(c) == {k \in 1..Len(sent[c]) : sent[c][k].command = "ERROR"}

\* C4: an accepted SEND frame with a receipt header is answered with exactly
\* one RECEIPT frame, receipt-id the header's value, on the sender's socket; one
\* without a receipt header with no RECEIPT and no ERROR.
C4_Receipt ==
    (last.op = "SEND" /\ Truthy(last.result)) =>
        IF last.receipt # Undefined
        THEN Cardinality(ReceiptsFor(last.sess, last.receipt)) = 1
        ELSE \A k \in 1..Len(sent[last.sess]) :
                sent[last.sess][k].command \notin {"RECEIPT", "ERROR"}

\* C5: a SEND frame whose chain returns false is answered with an ERROR frame
\* on the sender's socket and is delivered to no subscriber.
C5_SendRejected ==
    (last.op = "SEND" /\ ~Truthy(last.result)) =>
        /\ ErrorsTo(last.sess) # {}
        /\ ~AnyMessage

\* the subscriptions with this id and this session
Pair(sessionId, id) ==
    {i \in Indices : At(i).id = id /\ At(i).sessionId = sessionId}

\* C6: an UNSUBSCRIBE frame whose (id, session) pair is not registered returns
\* false, writes exactly one frame, an ERROR, to the requesting socket and
\* nothing to any other, and leaves `subscribes` as it was.
C6_UnsubscribeUnknown ==
    [][ (last'.op = "UNSUBSCRIBE" /\ Pair(last'.sess, last'.id) = {}) =>
            /\ last'.result = "false"
            /\ Len(sent'[last'.sess]) = 1
            /\ sent'[last'.sess][1].command = "ERROR"
            /\ \A c \in Conns \ {last'.sess} : sent'[c] = << >>
            /\ subscribes' = subscribes ]_vars

\* an UNSUBSCRIBE refused although another session holds a subscription with
\* the same id
C6_Witness ==
    /\ last.op = "UNSUBSCRIBE"
    /\ last.result = "false"
    /\ Pair(last.sess, last.id) = {}
    /\ \E i \in Indices : At(i).id = last.id
    /\ ErrorsTo(last.sess) # {}

\* C8: a socket the transport has reported closed has no subscription left in
\* the registry and no heartbeat timer, whatever the disconnect chain holds,
\* and no publication is written to it.
C8_CloseTeardown ==
    \A c \in Conns :
        readyState[c] = CLOSED =>
            /\ SubsOf(c) = {}
            /\ heartbeatClock[c] = 0
            /\ \A k \in 1..Len(sent[c]) : sent[c][k].command # "MESSAGE"

\* C7: once afterConnectionClose has run for a socket, by a DISCONNECT frame or
\* by the close event, the first time or again, the registry holds no
\* subscription of its session and no timer started for the socket is live.
C7_TeardownEndState ==
    (last.op \in {"close", "DISCONNECT"} /\ last.reached) =>
        /\ SubsOf(last.sess) = {}
        /\ \A t \in timers : t.socket # last.sess

\* C9: a CONNECT frame proposing (cx, cy) to a server configured (sx, sy)
\* starts, if cx > 0 and sy > 0, one client-driven timer of interval
\* max(cx, sy), announcing (0, max(cx, sy)); else, if cy > 0 and sx > 0, one
\* server-driven timer of interval max(cy, sx), announcing (max(cy, sx), 0);
\* else no timer, announcing (0, 0).  The announcement is the heart-beat header
\* of the CONNECTED frame.
C9_Negotiation ==
    [][ last'.op = "CONNECT" =>
          LET cx == last'.hb[1]
              cy == last'.hb[2]
              sx == conf.heartbeat[1]
              sy == conf.heartbeat[2]
              c == last'.sess
              Started(serverSide, interval) ==
                  /\ Cardinality(timers' \ timers) = 1
                  /\ timers \subseteq timers'
                  /\ \A t \in timers' \ timers :
                        /\ t.socket = c
                        /\ t.serverSide = serverSide
                        /\ t.interval = interval
                        /\ heartbeatClock'[c] = t.id
              Announced(pair) ==
                  Truthy(last'.result) =>
                      /\ Len(sent'[c]) = 1
                      /\ sent'[c][1].command = "CONNECTED"
                      /\ sent'[c][1].headers["heart-beat"] = pair
          IN  IF cx > 0 /\ sy > 0
              THEN Started(FALSE, Max(cx, sy)) /\ Announced(<< 0, Max(cx, sy) >>)
              ELSE IF cy > 0 /\ sx > 0
              THEN Started(TRUE, Max(cy, sx)) /\ Announced(<< Max(cy, sx), 0 >>)
              ELSE /\ timers' = timers
                   /\ heartbeatClock' = heartbeatClock
                   /\ Announced(<< 0, 0 >>) ]_vars

\* the client proposes (5000, 5000) to a server configured (0, 10000): the
\* client drives at 10000 and (0, 10000) is announced
C9_Witness ==
    /\ last.op = "CONNECT"
    /\ last.hb = << 5000, 5000 >>
    /\ conf.heartbeat = << 0, 10000 >>
    /\ \E t \in timers :
          t.id = last.timer /\ ~t.serverSide /\ t.interval = 10000 /\ t.socket = last.sess
    /\ Len(sent[last.sess]) = 1
    /\ sent[last.sess][1].command = "CONNECTED"
    /\ sent[last.sess][1].headers["heart-beat"] = << 0, 10000 >>

A == << "a" >>
B == << "b" >>
C == << "c" >>
D == << "d" >>

\* C10: on every pattern and destination the matcher returns what the walk
\* gives; a pattern shorter than the destination and without `**` does not
\* match; and for the destination a.b.c the pattern a.*.c matches and a.*.d
\* does not, while a.** matches a, a.b and a.b.c.
C10_TopicMatch ==
    probe.phase = "out" =>
        /\ probe.match = Walk(probe.sub, probe.dest)
        /\ (Len(probe.sub) < Len(probe.dest)
            /\ \A k \in 1..Len(probe.sub) : probe.sub[k] # StarStar) => ~probe.match
        /\ (probe.sub = << A, Star, C >> /\ probe.dest = << A, B, C >>) => probe.match
        /\ (probe.sub = << A, Star, D >> /\ probe.dest = << A, B, C >>) => ~probe.match
        /\ (probe.sub = << A, StarStar >>
            /\ probe.dest \in { << A >>, << A, B >>, << A, B, C >> }) => probe.match

\* a.** against a.b.c: `**` ends the walk with a match before the destination
\* is used up
C10_Witness ==
    /\ probe.phase = "out"
    /\ probe.sub = << A, StarStar >>
    /\ probe.dest = << A, B, C >>
    /\ probe.match

\* ================================================================ the codec
\* Control characters are written by name: one element of a string each.
LF == "LF"
NUL == "NUL"

MaxHeaders == 2     \* headers of a frame given to the codec
MaxBody == 3        \* characters of its body

\* String.prototype.indexOf(sub) from 0-based position i: 0-based, -1 when absent
RECURSIVE IndexOfStrFrom(_, _, _)
IndexOfStrFrom(s, sub, i) ==
    IF i + Len(sub) > Len(s) THEN -1
    ELSE IF SubSeq(s, i + 1, i + Len(sub)) = sub THEN i
    ELSE IndexOfStrFrom(s, sub, i + 1)

\* String.prototype.split(sep) for a separator of one character or more
RECURSIVE SplitStr(_, _)
SplitStr(s, sep) ==
    LET i == IndexOfStrFrom(s, sep, 0)
    IN  IF i = -1 THEN << s >>
        ELSE << SubSeq(s, 1, i) >> \o SplitStr(Substr(s, i + Len(sep)), sep)

\* Array.prototype.join(sep) for a separator string
RECURSIVE JoinStr(_, _)
JoinStr(parts, sep) ==
    IF Len(parts) = 0 THEN << >>
    ELSE IF Len(parts) = 1 THEN parts[1]
    ELSE parts[1] \o sep \o JoinStr(Tail(parts), sep)

WhiteSpace == {" ", LF}

\* String.prototype.trim
RECURSIVE TrimLeft(_)
TrimLeft(s) ==
    IF s # << >> /\ Head(s) \in WhiteSpace THEN TrimLeft(Tail(s)) ELSE s

RECURSIVE TrimRight(_)
TrimRight(s) ==
    IF s # << >> /\ s[Len(s)] \in WhiteSpace THEN TrimRight(SubSeq(s, 1, Len(s) - 1)) ELSE s

Trim(s) == TrimRight(TrimLeft(s))

\* A header object of the codec: the sequence of its << key, value >> pairs in
\* insertion order.  headers[key] = value on such an object:
RECURSIVE Assign(_, _, _)
Assign(headers, key, value) ==
    IF headers = << >> THEN << << key, value >> >>
    ELSE IF Head(headers)[1] = key THEN << << key, value >> >> \o Tail(headers)
    ELSE << Head(headers) >> \o Assign(Tail(headers), key, value)

HasKey(headers, key) == \E k \in 1..Len(headers) : headers[k][1] = key

\* Frame.toStringOrBuffer, the header lines: header + ':' + value for each header
RECURSIVE HeaderStrs(_)
HeaderStrs(headers) ==
    IF headers = << >> THEN << >>
    ELSE << Head(headers)[1] \o << ":" >> \o Head(headers)[2] >> \o HeaderStrs(Tail(headers))

\* Frame.toStringOrBuffer with a body that is a string
toStringOrBuffer(frame) ==
    frame.command \o << LF >> \o JoinStr(HeaderStrs(frame.headers), << LF >>)
        \o << LF, LF >> \o frame.body \o << NUL >>

\* parseCommand: the text before the first line feed
parseCommand(data) == SplitStr(data, << LF >>)[1]

\* parseHeaders, from line i on
RECURSIVE parseHeadersFrom(_, _, _)
parseHeadersFrom(lines, i, headers) ==
    IF i > Len(lines) THEN headers
    ELSE LET header == SplitStr(lines[i], << ":" >>)
         IN  IF Len(header) > 1
             THEN parseHeadersFrom(lines, i + 1,
                      Assign(headers, Trim(header[1]),
                             Trim(JoinStr(Tail(header), << ":" >>))))
             ELSE parseHeadersFrom(lines, i + 1, headers)

parseHeaders(raw_headers) == parseHeadersFrom(SplitStr(raw_headers, << LF >>), 1, << >>)

trimNull(a) ==
    LET c == IndexOfStrFrom(a, << NUL >>, 0)
    IN  IF c > -1 THEN SubSeq(a, 1, c) ELSE a

ContentLengthKey == << "c", "o", "n", "t", "e", "n", "t", "-", "l", "e", "n", "g", "t", "h" >>
BytesMessageKey == << "b", "y", "t", "e", "s", "_", "m", "e", "s", "s", "a", "g", "e" >>
TrueString == << "t", "r", "u", "e" >>

\* parseFrame: the_rest.slice(1) is an array, and its toString() joins the
\* pieces with commas
parseFrame(chunk) ==
    LET command == parseCommand(chunk)
        data == Substr(chunk, Len(command) + 1)
        the_rest == SplitStr(data, << LF, LF >>)
        headers0 == parseHeaders(the_rest[1])
        body == JoinStr(Tail(the_rest), << "," >>)
        headers == IF HasKey(headers0, ContentLengthKey)
                   THEN Assign(headers0, BytesMessageKey, TrueString)
                   ELSE headers0
    IN  [command |-> command, headers |-> headers, body |-> trimNull(body)]

\* CodecSpec: the codec on every frame with a command, at most MaxHeaders headers
\* of distinct keys without line feed or colon, and a text body of at most
\* MaxBody characters
CodecCommands == { << "S", "E", "N", "D" >>, << "M" >> }
CodecKeys == { << "i", "d" >>, << "k" >>, ContentLengthKey }
CodecValues == { << >>, << "v" >>, << "1", ":", "2" >> }
BodyChars == {"x", LF}
CodecBodies == UNION {[1..n -> BodyChars] : n \in 0..MaxBody}
CodecHeaders ==
    {h \in UNION {[1..n -> CodecKeys \X CodecValues] : n \in 0..MaxHeaders} :
        \A i, j \in 1..Len(h) : i # j => h[i][1] # h[j][1]}

CodecInit ==
    /\ conf = [heartbeat |-> << 0, 0 >>, heartbeatErrorMargin |-> 1000]
    /\ subscribes = << >>
    /\ middleware = [c \in Commands |-> << >>]
    /\ readyState = [c \in Conns |-> CONNECTING]
    /\ heartbeatClock = [c \in Conns |-> 0]
    /\ heartbeatTime = [c \in Conns |-> 0]
    /\ clientHeartbeat = [c \in Conns |-> << 0, 0 >>]
    /\ timers = {}
    /\ nextTimer = 1
    /\ now = 0
    /\ sent = NoneSent
    /\ emitted = << >>
    /\ last = Step("init", Undefined, Direct, Undefined, << >>, Undefined)
    /\ probe \in [phase : {"in"},
                  frame : [command : CodecCommands, headers : CodecHeaders,
                           body : CodecBodies]]

\* serialize the frame and parse the result
RoundTrip ==
    /\ probe.phase = "in"
    /\ probe' = [phase |-> "out", frame |-> probe.frame,
                 parsed |-> parseFrame(toStringOrBuffer(probe.frame))]
    /\ UNCHANGED << conf, subscribes, middleware, readyState, hbVars, sent, emitted, last >>

CodecNext == RoundTrip

CodecSpec == CodecInit /\ [][CodecNext]_vars

HeaderSet(headers) == {headers[k] : k \in 1..Len(headers)}

\* C11: serializing a frame and parsing the result gives back the command, the
\* headers (same keys and values, none added, none dropped) and the body.
C11_RoundTrip ==
    probe.phase = "out" =>
        /\ probe.parsed.command = probe.frame.command
        /\ HeaderSet(probe.parsed.headers) = HeaderSet(probe.frame.headers)
        /\ probe.parsed.body = probe.frame.body

\* ================================================ the connect chain: HsSpec
\* HbSpec with interceptors on the connect chain
HsCommands == {"connect"}

HsNext ==
    \/ HbNext
    \/ \E command \in HsCommands, handler \in Interceptors : addMiddleware(command, handler)
    \/ \E command \in HsCommands, handler \in Interceptors : removeMiddleware(command, handler)

HsSpec == HbInit /\ [][HsNext]_vars

\* C12: when every interceptor of a chain proceeds, the call returns what the
\* terminal handler returned, whatever the interceptors return themselves: a
\* CONNECT whose chain reaches the terminal handler (which returns true) has
\* the result true and is answered with CONNECTED; a DISCONNECT frame, a close
\* event and a SUBSCRIBE that reach theirs have the result true.
C12_ChainResult ==
    (last.op \in {"CONNECT", "DISCONNECT", "close", "SUBSCRIBE"} /\ last.reached) =>
        /\ last.result = "true"
        /\ last.op = "CONNECT" =>
              /\ Len(sent[last.sess]) = 1
              /\ sent[last.sess][1].command = "CONNECTED"

\* the heart-beat pair the negotiation rule gives for a proposal and a
\* configuration
Agreed(cx, cy, sx, sy) ==
    IF cx > 0 /\ sy > 0 THEN << 0, Max(cx, sy) >>
    ELSE IF cy > 0 /\ sx > 0 THEN << Max(cy, sx), 0 >>
    ELSE << 0, 0 >>

\* C15: a CONNECT frame is answered with exactly one frame, on its own socket:
\* CONNECTED with the session id and the negotiated heart-beat pair when the
\* connect chain returns true, ERROR when it returns false; the socket stays
\* open either way.
C15_ConnectAnswered ==
    last.op = "CONNECT" =>
        LET c == last.sess
        IN  /\ Len(sent[c]) = 1
            /\ \A d \in Conns \ {c} : sent[d] = << >>
            /\ last.result = "true" =>
                  /\ sent[c][1].command = "CONNECTED"
                  /\ sent[c][1].headers["session"] = c
                  /\ sent[c][1].headers["heart-beat"] =
                        Agreed(last.hb[1], last.hb[2], conf.heartbeat[1], conf.heartbeat[2])
            /\ last.result = "false" => sent[c][1].command = "ERROR"
            /\ readyState[c] = OPEN

\* a CONNECT an interceptor vetoed: ERROR, and the socket is still open
C15_Witness ==
    /\ last.op = "CONNECT"
    /\ last.result = "false"
    /\ ~last.reached
    /\ Len(sent[last.sess]) = 1
    /\ sent[last.sess][1].command = "ERROR"
    /\ readyState[last.sess] = OPEN

\* C16: a heartbeat timer is started only by a CONNECT the connect chain
\* accepted (its terminal handler ran, or the chain returned a true value): a
\* step that starts a timer or gives a socket a timer handle is such a CONNECT.
C16_HeartbeatAfterAccept ==
    [][ (timers' \ timers # {} \/ \E c \in Conns : heartbeatClock'[c] \notin {0, heartbeatClock[c]}) =>
            /\ last'.op = "CONNECT"
            /\ last'.reached \/ Truthy(last'.result) ]_vars

\* the live timers started for socket c
TimersOf(c) == {t \in timers : t.socket = c}

\* C17: a socket has at most one live heartbeat timer, and never a
\* client-driven and a server-driven one together.
C17_OneDirection ==
    \A c \in Conns :
        /\ Cardinality(TimersOf(c)) <= 1
        /\ \A t, u \in TimersOf(c) : t.serverSide = u.serverSide

\* =============================================== chains of several: ChainSpec
MaxChain == 2       \* interceptors registered over all commands in ChainSpec

ChainCommands == {"connect", "subscribe", "send"}

\* One socket and the in-process subscriber, with interceptors on the connect,
\* subscribe and send chains
ChainNext ==
    \/ \E c \in HbConns : Connection(c)
    \/ \E c \in HbConns : RecvConnect(c, Undefined)
    \/ \E c \in HbConns : RecvSubscribe(c, "s1", HbTopic)
    \/ ApiSubscribe(HbTopic, FALSE, "s2")
    \/ \E c \in HbConns, body \in Bodies : RecvSend(c, HbTopic, Undefined, body)
    \/ \E command \in ChainCommands, handler \in Interceptors :
          addMiddlewareUpTo(command, handler, MaxChain)
    \/ \E command \in ChainCommands, handler \in Interceptors : setMiddleware(command, handler)
    \/ \E command \in ChainCommands, handler \in Interceptors : removeMiddleware(command, handler)

ChainSpec == Init /\ [][ChainNext]_vars

\* the chain a frame handler's step ran through
ChainOf(op) ==
    IF op = "CONNECT" THEN "connect" ELSE IF op = "SUBSCRIBE" THEN "subscribe" ELSE "send"

\* C13: a CONNECT, SUBSCRIBE or SEND calls the interceptors of its chain in
\* registration order, each after the one before it proceeded, and the terminal
\* handler after the last proceeded; when one does not proceed, none after it
\* and no terminal handler runs, and the step registers no subscription, marks
\* no socket connected, emits no event and delivers nothing.
C13_OrderAndVeto ==
    [][ last'.op \in {"CONNECT", "SUBSCRIBE", "SEND"} =>
          LET chain == middleware'[ChainOf(last'.op)]
              calls == last'.calls
              AllProceed == \A j \in 1..Len(chain) : chain[j].proceed
          IN  /\ Len(calls) <= Len(chain)
              /\ \A j \in 1..Len(calls) : calls[j] = j
              /\ \A j \in 2..Len(calls) : chain[j - 1].proceed
              /\ Len(calls) < Len(chain) => (Len(calls) >= 1 /\ ~chain[Len(calls)].proceed)
              /\ last'.reached <=> AllProceed
              /\ ~AllProceed =>
                    /\ subscribes' = subscribes
                    /\ clientHeartbeat' = clientHeartbeat
                    /\ emitted' = << >>
                    /\ \A c \in Conns : \A k \in 1..Len(sent'[c]) :
                          sent'[c][k].command # "MESSAGE" ]_vars

\* a SUBSCRIBE through a chain of two, the first proceeding and the second not:
\* both were called, in order, and no subscription was registered
C13_Witness ==
    /\ last.op = "SUBSCRIBE"
    /\ middleware["subscribe"] = << Pass, Veto >>
    /\ last.calls = << 1, 2 >>
    /\ ~last.reached
    /\ subscribes = << >>

\* ==================================================== time and ticks: TickSpec
MaxNow == 20000          \* the clock stops here
PayloadsUntil == 5000    \* no payload arrives after this time

Delays == {1000, 2000}   \* the amounts by which time passes between two steps

\* the heartbeat marker a server-driven timer writes: BYTES.LF
Ping == Frame("LF", << >>, NoBody)

\* time passes; a timer fires when it is due, so time does not pass a due time
Advance(d) ==
    /\ now + d <= MaxNow
    /\ \A t \in timers : now >= t.due \/ now + d <= t.due
    /\ \A t \in timers : now # t.due
    /\ now' = now + d
    /\ sent' = NoneSent
    /\ emitted' = << >>
    /\ last' = [last EXCEPT !.op = "advance"]
    /\ UNCHANGED << conf, subscribes, middleware, readyState, heartbeatClock,
                    heartbeatTime, clientHeartbeat, timers, nextTimer, probe >>

\* the callback heartbeatOn gave setInterval runs, for timer t
Tick(t) ==
    /\ now = t.due
    /\ timers' = (timers \ {t}) \cup {[t EXCEPT !.due = @ + t.interval]}
    /\ IF t.serverSide
       THEN /\ sent' = IF readyState[t.socket] = OPEN
                       THEN SendTo(NoneSent, t.socket, Ping)
                       ELSE NoneSent
            /\ last' = [last EXCEPT !.op = "tick", !.timer = t.id, !.result = "ping"]
            /\ UNCHANGED << readyState, heartbeatTime >>
       ELSE LET diff == now - heartbeatTime[t.socket]
            IN  /\ sent' = NoneSent
                /\ IF diff > t.interval + conf.heartbeatErrorMargin
                   THEN /\ readyState' = [readyState EXCEPT ![t.socket] =
                                             IF @ = OPEN THEN CLOSING ELSE @]
                        /\ last' = [last EXCEPT !.op = "tick", !.timer = t.id,
                                                !.result = "close"]
                        /\ UNCHANGED heartbeatTime
                   ELSE /\ heartbeatTime' = [heartbeatTime EXCEPT ![t.socket] = @ - diff]
                        /\ last' = [last EXCEPT !.op = "tick", !.timer = t.id,
                                                !.result = "ok"]
                        /\ UNCHANGED readyState
    /\ emitted' = << >>
    /\ UNCHANGED << conf, subscribes, middleware, heartbeatClock, clientHeartbeat,
                    nextTimer, now, probe >>

\* parseRequest with the payload LF: a heartbeat marker when the socket has a
\* timer; without one it is parsed as a frame whose command is the empty string
RecvBeat(c) ==
    /\ readyState[c] = OPEN
    /\ Beat(c)
    /\ sent' = NoneSent
    /\ emitted' = << >>
    /\ last' = IF heartbeatClock[c] # 0
               THEN Step("PONG", c, Direct, Undefined, << >>, Undefined)
               ELSE Step("UNKNOWN", c,
                         [reached |-> FALSE, result |-> "Command not found", calls |-> << >>],
                         "", << >>, Undefined)
    /\ UNCHANGED << conf, subscribes, middleware, readyState, heartbeatClock,
                    clientHeartbeat, timers, nextTimer, now, probe >>

\* this.frameHandler[frame.command] for a command that names no handler: a
\* FrameHandler has the field stompServer, an object, and inherits constructor,
\* a class; any other name gives undefined
UnknownCommands == {"FOO", "stompServer", "constructor"}
frameHandlerLookup(command) ==
    IF command = "stompServer" THEN "object"
    ELSE IF command = "constructor" THEN "class"
    ELSE Undefined

\* parseRequest with a frame whose command names no handler: calling an object
\* or a class as cmdFunc(socket, frame) throws a TypeError
RecvUnknown(c, command) ==
    /\ readyState[c] = OPEN
    /\ Beat(c)
    /\ sent' = NoneSent
    /\ emitted' = << >>
    /\ last' = Step("UNKNOWN", c,
                    [reached |-> FALSE,
                     result |-> IF Truthy(frameHandlerLookup(command))
                                THEN "TypeError" ELSE "Command not found",
                     calls |-> << >>],
                    command, << >>, Undefined)
    /\ UNCHANGED << conf, subscribes, middleware, readyState, heartbeatClock,
                    clientHeartbeat, timers, nextTimer, now, probe >>

TickHeaders == { << 5000, 0 >>, << 0, 5000 >> }

TickInit ==
    /\ conf = [heartbeat |-> << 5000, 5000 >>, heartbeatErrorMargin |-> 1000]
    /\ subscribes = << >>
    /\ middleware = [c \in Commands |-> << >>]
    /\ readyState = [c \in Conns |-> CONNECTING]
    /\ heartbeatClock = [c \in Conns |-> 0]
    /\ heartbeatTime = [c \in Conns |-> 0]
    /\ clientHeartbeat = [c \in Conns |-> << 0, 0 >>]
    /\ timers = {}
    /\ nextTimer = 1
    /\ now = 0
    /\ sent = NoneSent
    /\ emitted = << >>
    /\ last = Step("init", Undefined, Direct, Undefined, << >>, Undefined)
    /\ probe = [phase |-> "off"]

TickNext ==
    \/ \E c \in HbConns : Connection(c)
    \/ now <= PayloadsUntil /\ \E c \in HbConns, rawHeartbeat \in TickHeaders : RecvConnect(c, rawHeartbeat)
    \/ now <= PayloadsUntil /\ \E c \in HbConns : RecvBeat(c)
    \/ now <= PayloadsUntil /\ \E c \in HbConns, command \in UnknownCommands : RecvUnknown(c, command)
    \/ \E t \in timers : Tick(t)
    \/ \E d \in Delays : Advance(d)
    \/ \E c \in HbConns : Close(c)

TickSpec == TickInit /\ [][TickNext]_vars

\* TickFairSpec: time passes, a due timer's callback runs, and the transport
\* reports the close that socket.close() asked for
TickFairSpec ==
    /\ TickSpec
    /\ WF_vars(\E d \in Delays : Advance(d))
    /\ WF_vars(\E t \in timers : Tick(t))
    /\ \A c \in HbConns : WF_vars(readyState[c] = CLOSING /\ Close(c))

ClientDriven(c) ==
    /\ readyState[c] = OPEN
    /\ Cardinality(TimersOf(c)) = 1
    /\ \A t \in TimersOf(c) : ~t.serverSide /\ t.id = heartbeatClock[c]

\* C18: a tick of a client-driven timer closes the socket exactly when the time
\* since the socket's last payload (last.at: a tick and the passing of time
\* leave it alone) is more than the interval and the error margin together.
C18_ClientDrivesCheck ==
    [][ \A c \in HbConns :
          (ClientDriven(c) /\ last'.op = "tick") =>
              \A t \in TimersOf(c) :
                  (readyState'[c] = CLOSING) <=>
                      (now - last.at > t.interval + conf.heartbeatErrorMargin) ]_vars

\* no payload arrives from some point on
Quiet == <>[](last.op \in {"tick", "advance", "close"})

\* C19: once no payload arrives any more, a socket in client-drives mode is in
\* the end closed by its timer; and when the close event that follows such a
\* close has been handled, no timer of the socket is left to fire.
C19_TimeoutLiveness ==
    /\ Quiet => \A c \in HbConns : [](ClientDriven(c) => <>(readyState[c] # OPEN))
    /\ [][ \A c \in HbConns :
              (readyState[c] = CLOSING /\ readyState'[c] = CLOSED) => TimersOf(c)' = {} ]_vars

\* C20: the registry never holds two subscriptions with the same id and the
\* same sessionId, so that removing one leaves none with that pair.
C20_UniqueIds ==
    \A i \in Indices : \A j \in Indices :
        (At(i).id = At(j).id /\ At(i).sessionId = At(j).sessionId) => i = j

\* ------------------------------------------------------------------ removal
\* the slots a step emptied
Removed == {i \in Indices : subscribes'[i] = {}}

\* C21: an UNSUBSCRIBE frame or an unsubscribe call of session S with id x
\* empties no slot but one whose subscription has id x and sessionId S, changes
\* no other slot, and returns true exactly when it emptied a slot.
C21_RemovalMatchesBoth ==
    [][ last'.op \in {"UNSUBSCRIBE", "unsubscribe"} =>
            /\ Len(subscribes') = Len(subscribes)
            /\ \A i \in 1..Len(subscribes) :
                  \/ subscribes'[i] = subscribes[i]
                  \/ /\ i \in Removed
                     /\ At(i).id = last'.id
                     /\ At(i).sessionId = last'.sess
            /\ (last'.result = "true") <=> (Removed # {}) ]_vars

\* an UNSUBSCRIBE or unsubscribe that returned true and left a hole, while a
\* subscription of another session with the same id is still registered
C21_Witness ==
    /\ last.op \in {"UNSUBSCRIBE", "unsubscribe"}
    /\ last.result = "true"
    /\ \E i \in 1..Len(subscribes) : subscribes[i] = {}
    /\ \E i \in Indices : At(i).id = last.id /\ At(i).sessionId # last.sess

\* C25: a pattern without `**` that has more tokens than the destination does
\* not match it: `*` stands for one segment, never for none.
C25_SingleLevel ==
    (/\ probe.phase = "out"
     /\ Len(probe.sub) > Len(probe.dest)
     /\ \A k \in 1..Len(probe.sub) : probe.sub[k] # StarStar) => ~probe.match

\* the latest step emitted the event disconnected(c)
Disconnected(c) ==
    \E k \in 1..Len(emitted) :
        /\ emitted[k].call = "emit"
        /\ emitted[k].event = "disconnected"
        /\ emitted[k].sessionId = c

\* C26: the event disconnected(sessionId) is emitted once for a session; in
\* particular a step that emitted it, a DISCONNECT frame, is not followed by a
\* step that emits it again for the same session, the close event.
C26_TornDownOnce ==
    [][ \A c \in Conns : Disconnected(c) => ~Disconnected(c)' ]_vars

\* ---------------------------------------------------------------- JsonSpec
\* SEND frames that carry a content-type, and SUBSCRIBE frames without a
\* destination header.  An exception that leaves parseRequest is the step's
\* result, under the name of its class.
ContentTypes == {"text/plain", "application/json"}
JsonBodies == { << >>, << "1" >>, << "h", "i" >>, << Quote, "a", Quote >>,
                << "{", Quote, "a", Quote, ":", "1", "}" >> }

Thrown(class) == [reached |-> FALSE, result |-> class, calls |-> << >>]

\* parseRequest with a SEND frame that has a content-type header: frameParser
\* runs before the handler is called
RecvSendTyped(c, dest, contentType, body) ==
    /\ readyState[c] = OPEN
    /\ Beat(c)
    /\ LET raw == Frame("SEND", SendHeaders(dest, Undefined) @@ ("content-type" :> contentType), body)
       IN  IF frameParserThrows(raw)
           THEN /\ sent' = NoneSent
                /\ emitted' = << >>
                /\ last' = Step("SEND", c, Thrown("SyntaxError"), Undefined, dest, Undefined)
           ELSE LET frame == frameParser(raw)
                    args == [dest |-> Get(frame.headers, "destination"), frame |-> frame]
                    r == withMiddleware("send", "true")
                IN  /\ IF r.reached
                       THEN \E n \in Randoms :
                              LET o == onSendFinal(c, args, n)
                              IN  sent' = o.sent /\ emitted' = o.emitted
                       ELSE sent' = NoneSent /\ emitted' = << >>
                    /\ last' = Step("SEND", c, r, Undefined, dest, Undefined)
    /\ UNCHANGED << conf, subscribes, middleware, readyState, heartbeatClock,
                    clientHeartbeat, timers, nextTimer, now, probe >>

\* parseRequest with a SUBSCRIBE frame that has no destination header:
\* onSubscribe's terminal handler calls tokenizeDestination(undefined), whose
\* dest.substr throws a TypeError before anything is pushed
RecvSubscribeBare(c, id) ==
    /\ readyState[c] = OPEN
    /\ Beat(c)
    /\ LET r == withMiddleware("subscribe", "true")
       IN  /\ sent' = IF r.reached \/ Truthy(r.result) THEN NoneSent
                      ELSE SendTo(NoneSent, c, ErrorFrame("SUBSCRIBE ERROR", Undefined))
           /\ last' = Step("SUBSCRIBE", c, IF r.reached THEN Thrown("TypeError") ELSE r,
                           id, << >>, Undefined)
    /\ emitted' = << >>
    /\ UNCHANGED << conf, subscribes, middleware, readyState, heartbeatClock,
                    clientHeartbeat, timers, nextTimer, now, probe >>

JsonNext ==
    \/ \E c \in Conns : Connection(c)
    \/ \E c \in Conns : Close(c)
    \/ \E c \in Conns, id \in Ids, topic \in SubTopics : RecvSubscribe(c, id, topic)
    \/ \E c \in Conns, id \in Ids : RecvSubscribeBare(c, id)
    \/ \E c \in Conns, dest \in Dests, contentType \in ContentTypes, body \in JsonBodies :
          RecvSendTyped(c, dest, contentType, body)

JsonSpec == Init /\ [][JsonNext]_vars

Exceptions == {"TypeError", "SyntaxError"}

\* C24: no payload makes parseRequest throw: the result of every step that
\* handles a payload is a value the dispatcher returned, not an exception.
C24_NoCrash == last.result \notin Exceptions

\* --------------------------------------------------------------- OrderSpec
\* Frames in flight.  The transport hands a socket's frames to its 'message'
\* listeners one at a time, in the order they arrived; parseRequest is
\* synchronous, so a frame is handled to its end before the next is taken.
\* `probe` holds the frames that have arrived on each socket and are not yet
\* handled, the count of arrivals, the arrival number of the frame handled
\* latest, and the log of the frames written to each socket so far.
MaxFrames == 3      \* frames arriving in one run

\* the body of the n-th frame to arrive, a SEND of socket c: the sender's name
\* and n marks
Stamp(c, n) == << c >> \o [i \in 1..n |-> "x"]

OrderFrames ==
    { [command |-> "SEND", id |-> Undefined, n |-> 0],
      [command |-> "SUBSCRIBE", id |-> "s1", n |-> 0],
      [command |-> "UNSUBSCRIBE", id |-> "s1", n |-> 0] }

\* A variant that takes the frame that arrived last.
DequeueLast(q) == [frame |-> q[Len(q)], rest |-> SubSeq(q, 1, Len(q) - 1)]

\* the frame the next 'message' event carries, and the frames left behind it
Dequeue(q) == [frame |-> Head(q), rest |-> Tail(q)]

OrderInit ==
    /\ conf = [heartbeat |-> << 0, 0 >>, heartbeatErrorMargin |-> 1000]
    /\ subscribes = << >>
    /\ middleware = [c \in Commands |-> << >>]
    /\ readyState = [c \in Conns |-> CONNECTING]
    /\ heartbeatClock = [c \in Conns |-> 0]
    /\ heartbeatTime = [c \in Conns |-> 0]
    /\ clientHeartbeat = [c \in Conns |-> << 0, 0 >>]
    /\ timers = {}
    /\ nextTimer = 1
    /\ now = 0
    /\ sent = NoneSent
    /\ emitted = << >>
    /\ last = Step("init", Undefined, Direct, Undefined, << >>, Undefined)
    /\ probe = [phase |-> "order", inbox |-> [c \in Conns |-> << >>],
                arrived |-> 0, done |-> 0, log |-> [c \in Conns |-> << >>]]

\* a frame arrives on socket c
Arrive(c, f) ==
    /\ readyState[c] = OPEN
    /\ probe.arrived < MaxFrames
    /\ probe' = [probe EXCEPT !.arrived = @ + 1,
                              !.inbox[c] = Append(@, [f EXCEPT !.n = probe.arrived + 1])]
    /\ UNCHANGED << conf, subscribes, middleware, readyState, hbVars, sent, emitted, last >>

\* the 'message' event of socket c: parseRequest on the next frame
Process(c) ==
    /\ probe.inbox[c] # << >>
    /\ LET d == Dequeue(probe.inbox[c])
           f == d.frame
       IN  /\ CASE f.command = "SEND" -> DispatchSend(c, HbTopic, Undefined, Stamp(c, f.n))
                 [] f.command = "SUBSCRIBE" -> DispatchSubscribe(c, f.id, HbTopic)
                 [] f.command = "UNSUBSCRIBE" -> DispatchUnsubscribe(c, f.id)
           /\ probe' = [probe EXCEPT !.inbox[c] = d.rest,
                                     !.done = f.n,
                                     !.log = [s \in Conns |-> probe.log[s] \o sent'[s]]]

OrderNext ==
    \/ \E c \in Conns : Connection(c)
    \/ \E c \in Conns, f \in OrderFrames : Arrive(c, f)
    \/ \E c \in Conns : Process(c)

OrderSpec == OrderInit /\ [][OrderNext]_vars

\* the MESSAGE frames of the log of socket s
LogMessages(s) == {k \in 1..Len(probe.log[s]) : probe.log[s][k].command = "MESSAGE"}
Sender(frame) == frame.body[1]
Number(frame) == Len(frame.body) - 1

\* the MESSAGE frames a socket received for the SEND frames of one sender are
\* in the order in which those SEND frames arrived
OrderedLog ==
    \A s \in Conns : \A k \in LogMessages(s) : \A l \in LogMessages(s) :
        (k < l /\ Sender(probe.log[s][k]) = Sender(probe.log[s][l])) =>
            Number(probe.log[s][k]) <= Number(probe.log[s][l])

Reactions ==
    { [kind |-> "none", id |-> Undefined, topic |-> << >>] }
    \cup { [kind |-> "unsubscribe", id |-> id, topic |-> << >>] : id \in Ids }
    \cup { [kind |-> "subscribe", id |-> id, topic |-> HbTopic] : id \in Ids }

\* A variant of the loop's test that goes by the keys the array had when the
\* loop began.
ForInVisitsSnapshot(initial, subs, i) == i <= Len(initial) /\ initial[i] # {}

\* whether the loop, arrived at key i, visits it: the property is there
ForInVisits(initial, subs, i) == subs[i] # {}

\* the callback's call of unsubscribe(id) or subscribe(topic, cb, {id}), on the
\* registry as it is at that moment
React(reaction, acc) ==
    IF reaction.kind = "unsubscribe"
    THEN LET hit == {j \in 1..Len(acc.subs) :
                        /\ acc.subs[j] # {}
                        /\ \E x \in acc.subs[j] : x.id = reaction.id /\ x.sessionId = SelfSession}
             removed == << [call |-> "removeAllListeners", event |-> reaction.id] >>
         IN  IF hit = {} THEN [acc EXCEPT !.emitted = @ \o removed]
             ELSE [acc EXCEPT
                     !.subs[First(hit)] = {},
                     !.emitted = @ \o removed \o
                         << [call |-> "emit", event |-> "unsubscribe",
                             sub |-> CHOOSE x \in acc.subs[First(hit)] : TRUE] >>]
    ELSE IF reaction.kind = "subscribe" /\ Len(acc.subs) < MaxSubs
    THEN LET sub == Sub(reaction.id, SelfSession, reaction.topic, Undefined)
         IN  [acc EXCEPT
                 !.subs = Append(@, {sub}),
                 !.emitted = @ \o << [call |-> "emit", event |-> "subscribe", sub |-> sub],
                                     [call |-> "on", event |-> reaction.id] >>]
    ELSE acc

\* _sendToSubscriptions with the registry changing under the loop
RECURSIVE sendLoopReentrant(_, _, _, _, _, _, _)
sendLoopReentrant(initial, i, sessionId, args, reaction, visitAdded, acc) ==
    IF acc.fault \/ i > (IF visitAdded THEN Len(acc.subs) ELSE Len(initial)) THEN acc
    ELSE IF ~ForInVisits(initial, acc.subs, i)
    THEN sendLoopReentrant(initial, i + 1, sessionId, args, reaction, visitAdded,
             IF i <= Len(initial) /\ initial[i] # {}
             THEN [acc EXCEPT !.skipped = Append(@, i)] ELSE acc)
    ELSE IF acc.subs[i] = {} THEN [acc EXCEPT !.fault = TRUE]
    ELSE LET sub == CHOOSE x \in acc.subs[i] : TRUE
         IN  IF sessionId = sub.sessionId \/ ~checkSubMatchDest(sub, args)
             THEN sendLoopReentrant(initial, i + 1, sessionId, args, reaction, visitAdded, acc)
             ELSE LET frame == Frame("MESSAGE",
                                     SetHeader(args.frame.headers, "subscription", sub.id),
                                     args.frame.body)
                  IN  IF sub.socket # Undefined
                      THEN sendLoopReentrant(initial, i + 1, sessionId, args, reaction, visitAdded,
                               [acc EXCEPT !.sent = SendTo(@, sub.socket, frame),
                                           !.visited = Append(@, i)])
                      ELSE sendLoopReentrant(initial, i + 1, sessionId, args, reaction, visitAdded,
                               React(reaction,
                                     [acc EXCEPT !.emitted =
                                                    Append(@, [call |-> "emit", event |-> sub.id,
                                                               body |-> frame.body,
                                                               headers |-> frame.headers]),
                                                 !.visited = Append(@, i)]))

\* onSend's terminal handler, as onSendFinal, with the loop above
onSendFinalReentrant(sessionId, args, reaction, visitAdded) ==
    LET frame0 == frameSerializer(args.frame)
        frame == [frame0 EXCEPT !.headers = SetHeader(@, "content-length", Len(frame0.body))]
        event == [call |-> "emit", event |-> "send", dest |-> args.dest, headers |-> frame.headers]
    IN  sendLoopReentrant(subscribes, 1, sessionId, [dest |-> args.dest, frame |-> frame],
                          reaction, visitAdded,
                          [sent |-> NoneSent, emitted |-> << event >>, subs |-> subscribes,
                           visited |-> << >>, skipped |-> << >>, fault |-> FALSE])

\* parseRequest with a SEND frame while the in-process subscribers' callback
\* is `reaction`
FanSend(c, dest, body, reaction, visitAdded) ==
    /\ readyState[c] = OPEN
    /\ Beat(c)
    /\ LET frame == frameParser(Frame("SEND", SendHeaders(dest, Undefined), body))
           args == [dest |-> Get(frame.headers, "destination"), frame |-> frame]
           o == onSendFinalReentrant(c, args, reaction, visitAdded)
       IN  /\ sent' = o.sent
           /\ emitted' = o.emitted
           /\ subscribes' = o.subs
           /\ probe' = [phase |-> "fan", visited |-> o.visited, skipped |-> o.skipped,
                        fault |-> o.fault, reaction |-> reaction,
                        grew |-> Len(o.subs) > Len(subscribes)]
           /\ last' = Step("SEND", c, IF o.fault THEN Thrown("TypeError") ELSE Direct,
                           Undefined, dest, Undefined)
    /\ UNCHANGED << conf, middleware, readyState, heartbeatClock,
                    clientHeartbeat, timers, nextTimer, now >>

FanInit ==
    /\ conf = [heartbeat |-> << 0, 0 >>, heartbeatErrorMargin |-> 1000]
    /\ subscribes = << >>
    /\ middleware = [c \in Commands |-> << >>]
    /\ readyState = [c \in Conns |-> CONNECTING]
    /\ heartbeatClock = [c \in Conns |-> 0]
    /\ heartbeatTime = [c \in Conns |-> 0]
    /\ clientHeartbeat = [c \in Conns |-> << 0, 0 >>]
    /\ timers = {}
    /\ nextTimer = 1
    /\ now = 0
    /\ sent = NoneSent
    /\ emitted = << >>
    /\ last = Step("init", Undefined, Direct, Undefined, << >>, Undefined)
    /\ probe = [phase |-> "fan", visited |-> << >>, skipped |-> << >>, fault |-> FALSE,
                reaction |-> CHOOSE r \in Reactions : r.kind = "none", grew |-> FALSE]

FanNext ==
    \/ \E c \in Conns : Connection(c)
    \/ \E c \in Conns : RecvSubscribe(c, "s1", HbTopic)
    \/ \E id \in Ids : ApiSubscribe(HbTopic, TRUE, id)
    \/ \E c \in Conns, body \in Bodies, reaction \in Reactions, visitAdded \in BOOLEAN :
          FanSend(c, HbTopic, body, reaction, visitAdded)

FanSpec == FanInit /\ [][FanNext]_vars

====
